---------------------------- MODULE Spec2Model ----------------------------
(***************************************************************************)
(* Model of the RouteRover appointment backend: calendarService            *)
(* (getAppointmentsForDay, findBestTimeSlot, createAppointment,            *)
(* getAvailableTimeSlots), routeService (analyzeRoute and its helpers) and *)
(* the appointmentController handlers (bookAppointment, chatHandler).      *)
(*                                                                         *)
(* Time.  An instant is an integer number of ticks since local midnight of *)
(* "today" (day 0).  A minute holds TicksPerMinute ticks, so an instant    *)
(* can lie strictly inside a minute, as a moment() value with non-zero     *)
(* seconds or milliseconds does.  ISO strings (toISOString / moment(iso))  *)
(* carry the full instant; 'YYYY-MM-DD' and 'HH:mm' strings carry a day    *)
(* number and a whole minute of the day.                                   *)
(***************************************************************************)
EXTENDS Integers, Sequences, FiniteSets, TLC

VARIABLES
    calendar,       \* events held by the calendar store, ordered by start
    pc,             \* per attempt: the await point the handler is at
    req,            \* per attempt: the request body / extracted data
    existing,       \* per attempt: existingAppointments
    routeAnalysis,  \* per attempt: result of routeService.analyzeRoute
    bestTimeSlot,   \* per attempt: result of findBestTimeSlot
    response,       \* per attempt: the HTTP response sent
    failed,         \* per attempt: collaborator calls that failed (history)
    calls,          \* per attempt: collaborator calls made, in order (history)
    created,        \* appointments returned by createAppointment, in order
    av,             \* a call of getAvailableTimeSlots: arguments and result
    fb,             \* a call of findBestTimeSlot: arguments and result
    loop,           \* a run of getAvailableTimeSlots, one loop iteration at a time
    ex              \* a run of the intent extractor up to the resolver

vars == <<calendar, pc, req, existing, routeAnalysis, bestTimeSlot,
          response, failed, calls, created, av, fb, loop, ex>>

attemptVars == <<calendar, pc, req, existing, routeAnalysis, bestTimeSlot,
                 response, failed, calls, created>>

-----------------------------------------------------------------------------
(* Bounds of the model *)

TicksPerMinute == 2     \* resolution of an instant below the minute
MaxBooked == 2          \* longest list of booked intervals given to getAvailableTimeSlots
MaxPrefs == 2           \* longest list of time preferences given to findBestTimeSlot
MaxSlots == 2           \* longest list of route windows given to findBestTimeSlot

(* Program constants *)

MinutesPerHour == 60
MinutesPerDay == 1440
BusinessStartHour == 9
BusinessEndHour == 17
BUSINESS_HOURS == [start |-> BusinessStartHour, end |-> BusinessEndHour]
DEFAULT_DURATION == 60
SERVICE_DURATIONS ==
    [cleaning |-> 120, repair |-> 90, plumbing |-> 60, electrical |-> 60,
     landscaping |-> 180]

Null == [null |-> TRUE]

-----------------------------------------------------------------------------
(* moment: instants, parsing and formatting *)

Today == 0

\* moment(`${date}T${time}`) and moment(date).hour(h).minute(m).second(0) for a
\* date-only string: the instant of a whole minute of a day.
At(date, minute) == (date * MinutesPerDay + minute) * TicksPerMinute

AtHour(date, hour) == At(date, hour * MinutesPerHour)

\* moment(x).format('YYYY-MM-DD')
FormatDate(x) == x \div (MinutesPerDay * TicksPerMinute)

\* moment(x).format('HH:mm'): the minute of the day, seconds and below dropped
FormatTime(x) == (x \div TicksPerMinute) % MinutesPerDay

\* moment(`${date}T${time}`) of a {date, time} preference
PrefInstant(p) == At(p.date, p.time)

\* moment(x).add(n, 'minutes')
AddMinutes(x, n) == x + n * TicksPerMinute

\* a.isBetween(s, e, null, '[]'): the end included
IsBetweenClosed(x, s, e) == s <= x /\ x <= e

\* a.isBetween(s, e, null, '[)')
IsBetween(x, s, e) == s <= x /\ x < e

-----------------------------------------------------------------------------
(* calendarService.getAvailableTimeSlots *)

\* appointmentStart.isBefore(slotEnd) && appointmentEnd.isAfter(slotStart)
Overlaps(appointment, slot) ==
    appointment.start < slot.end /\ appointment.end > slot.start

\* availableSlots.splice(i, 1)
Splice(slots, i) ==
    [j \in 1..(Len(slots) - 1) |-> IF j < i THEN slots[j] ELSE slots[j + 1]]

\* BeforePiece never pushed
BeforePieceDropped(appointment, slot) == <<>>

\* the slot pushed before the appointment, if there's time
BeforePiece(appointment, slot) ==
    IF appointment.start > slot.start
    THEN <<[start |-> slot.start, end |-> appointment.start]>>
    ELSE <<>>

\* AfterPiece without its "if there's time" test
AfterPieceAlways(appointment, slot) ==
    <<[start |-> appointment.end, end |-> slot.end]>>

\* AfterPiece never pushed
AfterPieceDropped(appointment, slot) == <<>>

\* the slot pushed after the appointment, if there's time
AfterPiece(appointment, slot) ==
    IF appointment.end < slot.end
    THEN <<[start |-> appointment.end, end |-> slot.end]>>
    ELSE <<>>

\* the inner for loop without its i-- after the splice: the slot that moved
\* into position i is skipped
RECURSIVE RemoveAppointmentSkipping(_, _, _)
RemoveAppointmentSkipping(slots, i, appointment) ==
    IF i > Len(slots) THEN slots
    ELSE IF Overlaps(appointment, slots[i])
         THEN RemoveAppointmentSkipping(
                  Splice(slots, i) \o BeforePiece(appointment, slots[i])
                                   \o AfterPiece(appointment, slots[i]),
                  i + 1, appointment)
         ELSE RemoveAppointmentSkipping(slots, i + 1, appointment)

\* the inner for loop over availableSlots, from index i on, for one
\* appointment: an overlapping slot is removed, its pieces are pushed at the
\* end of the array and the index stays (i-- then i++)
RECURSIVE RemoveAppointment(_, _, _)
RemoveAppointment(slots, i, appointment) ==
    IF i > Len(slots) THEN slots
    ELSE IF Overlaps(appointment, slots[i])
         THEN RemoveAppointment(
                  Splice(slots, i) \o BeforePiece(appointment, slots[i])
                                   \o AfterPiece(appointment, slots[i]),
                  i, appointment)
         ELSE RemoveAppointment(slots, i + 1, appointment)

\* the outer for-of loop over existingAppointments, from index k on
RECURSIVE RemoveAppointments(_, _, _)
RemoveAppointments(slots, existingAppointments, k) ==
    IF k > Len(existingAppointments) THEN slots
    ELSE RemoveAppointments(
             RemoveAppointment(slots, 1, existingAppointments[k]),
             existingAppointments, k + 1)

getAvailableTimeSlots(date, existingAppointments) ==
    LET dayStart == AtHour(date, BUSINESS_HOURS.start)
        dayEnd == AtHour(date, BUSINESS_HOURS.end)
    IN  RemoveAppointments(<<[start |-> dayStart, end |-> dayEnd]>>,
                           existingAppointments, 1)

-----------------------------------------------------------------------------
(* calendarService.findBestTimeSlot *)

\* routeAnalysis.availableTimeSlots.some(slot =>
\*     preferredDateTime.isBetween(slotStart, slotEnd, null, '[)'))
IsTimeSlotAvailable(preference, availableTimeSlots) ==
    \E j \in DOMAIN availableTimeSlots :
        IsBetween(PrefInstant(preference),
                  availableTimeSlots[j].start, availableTimeSlots[j].end)

\* the loop over timePreferences without its early return: the last
\* preference that works wins
RECURSIVE LastPreference(_, _, _)
LastPreference(timePreferences, i, availableTimeSlots) ==
    IF i > Len(timePreferences) THEN Null
    ELSE LET later == LastPreference(timePreferences, i + 1, availableTimeSlots)
         IN  IF later # Null THEN later
             ELSE IF IsTimeSlotAvailable(timePreferences[i], availableTimeSlots)
                  THEN [date |-> timePreferences[i].date,
                        time |-> timePreferences[i].time]
                  ELSE Null

\* the for-of loop over timePreferences, from index i on: the first
\* preference that works is returned as { date, time }
RECURSIVE FirstPreference(_, _, _)
FirstPreference(timePreferences, i, availableTimeSlots) ==
    IF i > Len(timePreferences) THEN Null
    ELSE IF IsTimeSlotAvailable(timePreferences[i], availableTimeSlots)
         THEN [date |-> timePreferences[i].date, time |-> timePreferences[i].time]
         ELSE FirstPreference(timePreferences, i + 1, availableTimeSlots)

\* the fallback taking the last element of availableTimeSlots
LastAvailable(availableTimeSlots) ==
    IF Len(availableTimeSlots) > 0
    THEN [date |-> FormatDate(availableTimeSlots[Len(availableTimeSlots)].start),
          time |-> FormatTime(availableTimeSlots[Len(availableTimeSlots)].start)]
    ELSE Null

\* the fallback naming a slot even when nothing is available
FirstAvailableOrDefault(availableTimeSlots) ==
    IF Len(availableTimeSlots) > 0
    THEN [date |-> FormatDate(availableTimeSlots[1].start),
          time |-> FormatTime(availableTimeSlots[1].start)]
    ELSE [date |-> Today + 1, time |-> BusinessStartHour * MinutesPerHour]

\* "If no preferred time works, return the first available time slot"
FirstAvailable(availableTimeSlots) ==
    IF Len(availableTimeSlots) > 0
    THEN [date |-> FormatDate(availableTimeSlots[1].start),
          time |-> FormatTime(availableTimeSlots[1].start)]
    ELSE Null

\* a resolver that consults what other attempts have created: once
\* anything was created it no longer looks at the preferences
findBestTimeSlotSharingState(timePreferences, route) ==
    IF created # <<>>
    THEN FirstAvailable(route.availableTimeSlots)
    ELSE LET preferred == FirstPreference(timePreferences, 1,
                                          route.availableTimeSlots)
         IN  IF preferred # Null THEN preferred
             ELSE FirstAvailable(route.availableTimeSlots)

findBestTimeSlot(timePreferences, route) ==
    LET preferred == FirstPreference(timePreferences, 1, route.availableTimeSlots)
    IN  IF preferred # Null THEN preferred
        ELSE FirstAvailable(route.availableTimeSlots)

-----------------------------------------------------------------------------
(* calendarService.createAppointment and getAppointmentsForDay *)

\* names every object literal inherits from Object.prototype: looking one up
\* in SERVICE_DURATIONS yields a function, which is truthy
ObjectPrototypeKeys == {"constructor", "toString", "valueOf", "hasOwnProperty"}

\* SERVICE_DURATIONS[service] || DEFAULT_DURATION, as the number of minutes
\* that moment(startDateTime).add(durationMinutes, 'minutes') adds: a value
\* that is not a number makes an empty duration
DurationMinutes(service) ==
    IF service \in DOMAIN SERVICE_DURATIONS
    THEN SERVICE_DURATIONS[service]
    ELSE IF service \in ObjectPrototypeKeys
         THEN 0
         ELSE DEFAULT_DURATION

\* the event returned by createAppointment when nothing throws.  The call of
\* calendar.events.insert is commented out in the source: the event is
\* returned to the caller and never written to the calendar.
createAppointment(appointmentData) ==
    LET startDateTime == At(appointmentData.date, appointmentData.time)
        endDateTime == AddMinutes(startDateTime,
                                  DurationMinutes(appointmentData.service))
    IN  [start |-> startDateTime, end |-> endDateTime,
         service |-> appointmentData.service, status |-> "confirmed"]

\* calendar.events.list({timeMin: startOf('day'), timeMax: endOf('day'),
\* orderBy: 'startTime'}) mapped to {start, end}: the events that end after
\* the start of the day and start before its end, in calendar order
RECURSIVE EventsOfDay(_, _)
EventsOfDay(events, date) ==
    IF events = <<>> THEN <<>>
    ELSE LET e == Head(events)
             rest == EventsOfDay(Tail(events), date)
         IN  IF e.end > At(date, 0) /\ e.start < At(date + 1, 0)
             THEN <<e>> \o rest
             ELSE rest

\* getAppointmentsForDay: the day's events, or [] when the calendar API fails
getAppointmentsForDay(events, date, apiFails) ==
    IF apiFails THEN <<>> ELSE EventsOfDay(events, date)

-----------------------------------------------------------------------------
(* routeService.analyzeRoute *)

RouteDays == 7
MorningStartHour == 9
MorningEndHour == 12
AfternoonStartHour == 14
AfternoonEndHour == 17
MaxAlternatives == 5

\* findAvailableTimeSlots: a morning and an afternoon slot for each of the
\* next 7 days, counted from the start of today
RECURSIVE findAvailableTimeSlots(_)
findAvailableTimeSlots(day) ==
    IF day > RouteDays THEN <<>>
    ELSE << [start |-> AtHour(Today + day, MorningStartHour),
             end |-> AtHour(Today + day, MorningEndHour)],
            [start |-> AtHour(Today + day, AfternoonStartHour),
             end |-> AtHour(Today + day, AfternoonEndHour)] >>
         \o findAvailableTimeSlots(day + 1)

\* generateAlternatives: availableTimeSlots.slice(0, 5) as {date, time}
generateAlternatives(availableTimeSlots) ==
    [j \in 1..(IF Len(availableTimeSlots) < MaxAlternatives
               THEN Len(availableTimeSlots) ELSE MaxAlternatives) |->
        [date |-> FormatDate(availableTimeSlots[j].start),
         time |-> FormatTime(availableTimeSlots[j].start)]]

\* the catch block of analyzeRoute: moment().add(1, 'day').hour(h).minute(0)
\* .second(0) keeps the milliseconds of the current time, sinceMinute ticks
\* below the minute
MockRouteAnalysis(sinceMinute) ==
    [availableTimeSlots |->
        << [start |-> AtHour(Today + 1, MorningStartHour) + sinceMinute,
            end |-> AtHour(Today + 1, MorningEndHour) + sinceMinute],
           [start |-> AtHour(Today + 1, AfternoonStartHour) + sinceMinute,
            end |-> AtHour(Today + 1, AfternoonEndHour) + sinceMinute] >>,
     suggestedAlternatives |->
        << [date |-> Today + 1, time |-> MorningStartHour * MinutesPerHour],
           [date |-> Today + 1, time |-> AfternoonStartHour * MinutesPerHour] >>]

\* analyzeRoute(newAppointmentAddress, existingAppointments): the slots of
\* findAvailableTimeSlots do not depend on the existing appointments; when a
\* step of the try block throws, the mock data of the catch block is returned
analyzeRoute(existingAppointments, throws, sinceMinute) ==
    IF throws THEN MockRouteAnalysis(sinceMinute)
    ELSE LET availableTimeSlots == findAvailableTimeSlots(1)
         IN  [availableTimeSlots |-> availableTimeSlots,
              suggestedAlternatives |-> generateAlternatives(availableTimeSlots)]

-----------------------------------------------------------------------------
(* appointmentController: responses *)

NoResponse == [status |-> 0, appointmentBooked |-> FALSE, appointment |-> Null,
               suggestedAlternatives |-> <<>>]

\* res.status(400): 'Missing required fields' / 'Message is required'
BadRequestResponse ==
    [status |-> 400, appointmentBooked |-> FALSE, appointment |-> Null,
     suggestedAlternatives |-> <<>>]

\* the handler's catch block: res.status(500)
CatchResponse(handler) ==
    [status |-> 500, appointmentBooked |-> FALSE, appointment |-> Null,
     suggestedAlternatives |-> <<>>]

\* the no-slot answer passing on only the first alternative
NoSlotResponseFirstAlternative(handler, route) ==
    [status |-> IF handler = "bookAppointment" THEN 409 ELSE 200,
     appointmentBooked |-> FALSE, appointment |-> Null,
     suggestedAlternatives |->
         SubSeq(route.suggestedAlternatives, 1,
                IF Len(route.suggestedAlternatives) > 0 THEN 1 ELSE 0)]

\* bookAppointment: res.status(409) with routeAnalysis.suggestedAlternatives;
\* chatHandler: res.status(200) with appointmentBooked: false
NoSlotResponse(handler, route) ==
    [status |-> IF handler = "bookAppointment" THEN 409 ELSE 200,
     appointmentBooked |-> FALSE, appointment |-> Null,
     suggestedAlternatives |-> route.suggestedAlternatives]

\* bookAppointment: res.status(201).json(appointment);
\* chatHandler: res.status(200) with appointmentBooked: true
BookedResponse(handler, appointment) ==
    [status |-> IF handler = "bookAppointment" THEN 201 ELSE 200,
     appointmentBooked |-> TRUE, appointment |-> appointment,
     suggestedAlternatives |-> <<>>]

\* the response when the error thrown by createAppointment is swallowed
CreateResponseSwallowingThrow(handler, throws, appointment) ==
    BookedResponse(handler, appointment)

\* the response after createAppointment returned or threw
CreateResponse(handler, throws, appointment) ==
    IF throws THEN CatchResponse(handler)
    ELSE BookedResponse(handler, appointment)

-----------------------------------------------------------------------------
(* Inputs *)

Attempts == {1, 2}

Tomorrow == Today + 1

Pref(date, hour, minute) == [date |-> date, time |-> hour * MinutesPerHour + minute]

Event(date, fromHour, toHour) ==
    [start |-> AtHour(date, fromHour), end |-> AtHour(date, toHour)]

\* the calendars the attempts run against
Calendars ==
    { << Event(Tomorrow, 9, 11) >>,
      << Event(Tomorrow, 10, 11), Event(Tomorrow, 15, 16) >> }

\* request bodies: for bookAppointment timePreferences is [{date, time}] plus
\* the alternative when given; for chatHandler it is extractedData's list
Requests ==
    { [handler |-> "bookAppointment", complete |-> TRUE, service |-> "cleaning",
       timePreferences |-> << Pref(Tomorrow, 9, 0) >>],
      [handler |-> "bookAppointment", complete |-> TRUE, service |-> "plumbing",
       timePreferences |-> << Pref(Tomorrow, 13, 0), Pref(Tomorrow, 11, 30) >>],
      [handler |-> "bookAppointment", complete |-> TRUE, service |-> "painting",
       timePreferences |-> << Pref(Tomorrow, 13, 0) >>],
      [handler |-> "chatHandler", complete |-> TRUE, service |-> "cleaning",
       timePreferences |-> << Pref(Tomorrow, 9, 0) >>],
      [handler |-> "chatHandler", complete |-> TRUE, service |-> "repair",
       timePreferences |-> << Pref(Today, 10, 0), Pref(Tomorrow, 15, 30) >>],
      [handler |-> "bookAppointment", complete |-> TRUE, service |-> "constructor",
       timePreferences |-> << Pref(Tomorrow, 9, 0) >>],
      [handler |-> "bookAppointment", complete |-> TRUE, service |-> "electrical",
       timePreferences |-> << Pref(Tomorrow, 14, 0) >>],
      [handler |-> "chatHandler", complete |-> TRUE, service |-> "landscaping",
       timePreferences |-> << Pref(Tomorrow, 9, 0) >>],
      [handler |-> "bookAppointment", complete |-> FALSE, service |-> "cleaning",
       timePreferences |-> << >>] }

NoRoute == [availableTimeSlots |-> <<>>, suggestedAlternatives |-> <<>>]

-----------------------------------------------------------------------------
(* appointmentController.bookAppointment and chatHandler, one action per     *)
(* await point.  Both handlers make the same calls in the same order; for    *)
(* chatHandler the request is the extractedData of a book_appointment        *)
(* intent.  Each collaborator call may fail: the calendar API (credentials,  *)
(* network) in getAppointmentsForDay and createAppointment, and a step of    *)
(* the try block of analyzeRoute, whose catch block then answers.            *)

\* the handler with its first two calls in the other order
NextStageRouteFirst(stage) ==
    CASE stage = "idle" -> "analyzeRoute"
      [] stage = "analyzeRoute" -> "getAppointmentsForDay"
      [] stage = "getAppointmentsForDay" -> "findBestTimeSlot"
      [] stage = "findBestTimeSlot" -> "createAppointment"
      [] stage = "createAppointment" -> "done"

\* the call the handler makes after a call has returned: the statements of
\* the try block, in program order
NextStage(stage) ==
    CASE stage = "idle" -> "getAppointmentsForDay"
      [] stage = "getAppointmentsForDay" -> "analyzeRoute"
      [] stage = "analyzeRoute" -> "findBestTimeSlot"
      [] stage = "findBestTimeSlot" -> "createAppointment"
      [] stage = "createAppointment" -> "done"

\* the request arrives; a body with missing fields is answered 400
Receive(a) ==
    /\ pc[a] = "idle"
    /\ \E r \in Requests :
        /\ req' = [req EXCEPT ![a] = r]
        /\ IF r.complete
           THEN /\ pc' = [pc EXCEPT ![a] = NextStage("idle")]
                /\ UNCHANGED response
           ELSE /\ pc' = [pc EXCEPT ![a] = "done"]
                /\ response' = [response EXCEPT ![a] = BadRequestResponse]
    /\ UNCHANGED <<calendar, existing, routeAnalysis, bestTimeSlot, failed,
                   calls, created, av, fb, loop, ex>>

\* 1. Check existing appointments
GetAppointmentsForDay(a) ==
    /\ pc[a] = "getAppointmentsForDay"
    /\ \E apiFails \in BOOLEAN :
        /\ existing' = [existing EXCEPT ![a] =
               getAppointmentsForDay(calendar, req[a].timePreferences[1].date,
                                     apiFails)]
        /\ failed' = [failed EXCEPT ![a] =
               IF apiFails THEN @ \cup {"getAppointmentsForDay"} ELSE @]
    /\ calls' = [calls EXCEPT ![a] = Append(@, "getAppointmentsForDay")]
    /\ pc' = [pc EXCEPT ![a] = NextStage("getAppointmentsForDay")]
    /\ UNCHANGED <<calendar, req, routeAnalysis, bestTimeSlot, response,
                   created, av, fb, loop, ex>>

\* 2. Check route feasibility
AnalyzeRoute(a) ==
    /\ pc[a] = "analyzeRoute"
    /\ \E throws \in BOOLEAN, sinceMinute \in 0..(TicksPerMinute - 1) :
        /\ throws \/ sinceMinute = 0
        /\ routeAnalysis' = [routeAnalysis EXCEPT ![a] =
               analyzeRoute(existing[a], throws, sinceMinute)]
        /\ failed' = [failed EXCEPT ![a] =
               IF throws THEN @ \cup {"analyzeRoute"} ELSE @]
    /\ calls' = [calls EXCEPT ![a] = Append(@, "analyzeRoute")]
    /\ pc' = [pc EXCEPT ![a] = NextStage("analyzeRoute")]
    /\ UNCHANGED <<calendar, req, existing, bestTimeSlot, response, created,
                   av, fb, loop, ex>>

\* results a route collaborator may return through the interface of
\* analyzeRoute: no slot at all (with and without alternatives), one slot,
\* and the slots of findAvailableTimeSlots
RouteResults ==
    { [availableTimeSlots |-> <<>>,
       suggestedAlternatives |-> << Pref(Tomorrow, 9, 0), Pref(Tomorrow, 14, 0) >>],
      [availableTimeSlots |-> <<>>, suggestedAlternatives |-> <<>>],
      [availableTimeSlots |-> << Event(Tomorrow, 14, 17) >>,
       suggestedAlternatives |-> << Pref(Tomorrow, 14, 0) >>],
      analyzeRoute(<<>>, FALSE, 0) }

\* 2. Check route feasibility, the await resolving to any result of the
\* interface instead of the one routeService computes
AnalyzeRouteAny(a) ==
    /\ pc[a] = "analyzeRoute"
    /\ \E result \in RouteResults :
        routeAnalysis' = [routeAnalysis EXCEPT ![a] = result]
    /\ calls' = [calls EXCEPT ![a] = Append(@, "analyzeRoute")]
    /\ pc' = [pc EXCEPT ![a] = NextStage("analyzeRoute")]
    /\ UNCHANGED <<calendar, req, existing, bestTimeSlot, response, failed,
                   created, av, fb, loop, ex>>

\* a handler that treats a missing slot as found
NoSlotNever(best) == FALSE

\* if (!bestTimeSlot): no suitable time slot found
NoSlot(best) == best = Null

\* a resolver that takes the first window out of the list with shift()
RouteAnalysisShifted(route) ==
    [route EXCEPT !.availableTimeSlots = IF @ = <<>> THEN @ ELSE Tail(@)]

\* the routeAnalysis object after findBestTimeSlot has run on it: the
\* function only reads it (some, length, [0])
RouteAnalysisAfterResolve(route) == route

\* 3. Find the best time slot
FindBestTimeSlot(a) ==
    /\ pc[a] = "findBestTimeSlot"
    /\ LET best == findBestTimeSlot(req[a].timePreferences, routeAnalysis[a])
       IN  /\ bestTimeSlot' = [bestTimeSlot EXCEPT ![a] = best]
           /\ routeAnalysis' = [routeAnalysis EXCEPT ![a] =
                  RouteAnalysisAfterResolve(@)]
           /\ IF NoSlot(best)
              THEN /\ pc' = [pc EXCEPT ![a] = "done"]
                   /\ response' = [response EXCEPT ![a] =
                          NoSlotResponse(req[a].handler,
                              RouteAnalysisAfterResolve(routeAnalysis[a]))]
              ELSE /\ pc' = [pc EXCEPT ![a] = NextStage("findBestTimeSlot")]
                   /\ UNCHANGED response
    /\ calls' = [calls EXCEPT ![a] = Append(@, "findBestTimeSlot")]
    /\ UNCHANGED <<calendar, req, existing, failed, created, av, fb, loop, ex>>

\* 4. Book the appointment, 5. return the booked appointment details
CreateAppointment(a) ==
    /\ pc[a] = "createAppointment"
    /\ \E throws \in BOOLEAN :
        LET appointment == createAppointment(
                [service |-> req[a].service, date |-> bestTimeSlot[a].date,
                 time |-> bestTimeSlot[a].time])
        IN  /\ created' = IF throws THEN created ELSE Append(created, appointment)
            /\ failed' = [failed EXCEPT ![a] =
                   IF throws THEN @ \cup {"createAppointment"} ELSE @]
            /\ response' = [response EXCEPT ![a] =
                   CreateResponse(req[a].handler, throws, appointment)]
    /\ calls' = [calls EXCEPT ![a] = Append(@, "createAppointment")]
    /\ pc' = [pc EXCEPT ![a] = NextStage("createAppointment")]
    /\ UNCHANGED <<calendar, req, existing, routeAnalysis, bestTimeSlot, av, fb, loop, ex>>

-----------------------------------------------------------------------------
(* Calls of the two pure functions of calendarService on arbitrary inputs *)

SeqsUpTo(S, n) == UNION { [1..k -> S] : k \in 0..n }

\* instants booked intervals start and end at: whole hours around and inside
\* business hours, and one instant strictly inside a minute
BookedInstants ==
    { AtHour(Tomorrow, 8), AtHour(Tomorrow, 9), AtHour(Tomorrow, 10),
      AtHour(Tomorrow, 11), AtHour(Tomorrow, 13), AtHour(Tomorrow, 17) - 1,
      AtHour(Tomorrow, 17),
      AtHour(Tomorrow, 18) }

BookedIntervals ==
    { i \in [start : BookedInstants, end : BookedInstants] : i.start < i.end }

AvIdle == [date |-> Tomorrow, existingAppointments |-> <<>>, result |-> <<>>,
           pc |-> "idle"]

AvCall ==
    /\ av.pc = "call"
    /\ av' = [av EXCEPT !.result = getAvailableTimeSlots(av.date, av.existingAppointments),
                        !.pc = "done"]
    /\ UNCHANGED <<attemptVars, fb, loop, ex>>

PrefChoices ==
    { Pref(Tomorrow, 9, 0), Pref(Tomorrow, 9, 30), Pref(Tomorrow, 10, 0),
      Pref(Tomorrow, 10, 30), Pref(Tomorrow, 16, 0) }

SlotChoices ==
    { Event(Tomorrow, 9, 10), Event(Tomorrow, 11, 17), Event(Tomorrow, 14, 17),
      [start |-> AtHour(Tomorrow, 9) + 1, end |-> AtHour(Tomorrow, 12) + 1] }

ServiceChoices == {"cleaning", "plumbing"}

FbIdle == [timePreferences |-> <<>>, availableTimeSlots |-> <<>>,
           service |-> "cleaning", result |-> Null, pc |-> "idle"]

FbCall ==
    /\ fb.pc = "call"
    /\ fb' = [fb EXCEPT !.result = findBestTimeSlot(fb.timePreferences,
                            [availableTimeSlots |-> fb.availableTimeSlots,
                             suggestedAlternatives |-> <<>>]),
                        !.pc = "done"]
    /\ UNCHANGED <<attemptVars, av, loop, ex>>

-----------------------------------------------------------------------------
(* getAvailableTimeSlots, one loop iteration at a time *)

-----------------------------------------------------------------------------
(* aiService.processMessage and the chat handler up to the resolver *)

\* a date or a time string that moment(s, format, true) finds not valid
Invalid == 0 - 1

\* let date = null, let time = null: nothing found in the message
NotFound == 0 - 2

\* { date: tomorrow, time: '09:00' }
DefaultPreference == [date |-> Today + 1, time |-> 9 * MinutesPerHour]

validServices == {"cleaning", "repair", "plumbing", "electrical", "landscaping"}

\* service.toLowerCase() on the service names of the model
ToLowerCase(service) ==
    CASE service = "PLUMBING" -> "plumbing"
      [] OTHER -> service

\* normalizeBookingData with no default preference pushed
KeepEmpty(timePreferences) == timePreferences

\* "If no time preferences were extracted, add a default one for tomorrow"
PushDefault(timePreferences) ==
    IF Len(timePreferences) = 0 THEN << DefaultPreference >>
    ELSE timePreferences

\* "Validate each time preference": a date that is not YYYY-MM-DD becomes
\* tomorrow, a time that is not HH:mm becomes 09:00
ValidatePreference(pref) ==
    [date |-> IF pref.date = Invalid THEN Today + 1 ELSE pref.date,
     time |-> IF pref.time = Invalid THEN 9 * MinutesPerHour ELSE pref.time]

\* normalizeBookingData throws a TypeError: service is missing (toLowerCase
\* of undefined) or an element of the list is null (pref.date of null)
NormalizeThrows(extractedData) ==
    \/ ~extractedData.hasService
    \/ /\ extractedData.isArray
       /\ \E i \in DOMAIN extractedData.timePreferences :
              extractedData.timePreferences[i] = Null

normalizeBookingData(extractedData) ==
    LET normalizedService ==
            IF ToLowerCase(extractedData.service) \in validServices
            THEN ToLowerCase(extractedData.service)
            ELSE "cleaning"
        normalizedTimePreferences ==
            PushDefault(IF extractedData.isArray
                        THEN extractedData.timePreferences
                        ELSE <<>>)
    IN  [service |-> normalizedService,
         timePreferences |->
             [i \in DOMAIN normalizedTimePreferences |->
                  ValidatePreference(normalizedTimePreferences[i])]]

\* extractAppointmentData on a message in which a service, a date and a time
\* were or were not found
extractAppointmentData(found) ==
    IF found.hasService /\ (found.date # NotFound \/ found.time # NotFound)
    THEN [service |-> found.service,
          timePreferences |->
              IF found.date # NotFound /\ found.time # NotFound
              THEN << [date |-> found.date, time |-> found.time] >>
              ELSE IF found.date # NotFound
                   THEN << [date |-> found.date, time |-> 9 * MinutesPerHour] >>
                   ELSE << [date |-> Today + 1, time |-> found.time] >>]
    ELSE Null

GeneralConversation == [intent |-> "general_conversation", extractedData |-> Null]

ExIdle == [path |-> "idle", input |-> Null, aiResponse |-> Null,
           timePreferences |-> Null, status |-> 0, pc |-> "idle"]

\* processMessage when the model answered: the JSON is parsed and a booking
\* intent is normalized; an error thrown on the way gives the general answer
ExModelPath ==
    /\ ex.pc = "processMessage"
    /\ ex.path = "model"
    /\ ex' = [ex EXCEPT
           !.aiResponse =
               IF ex.input.intent = "book_appointment" /\ ex.input.extractedData # Null
               THEN IF NormalizeThrows(ex.input.extractedData)
                    THEN GeneralConversation
                    ELSE [intent |-> "book_appointment",
                          extractedData |->
                              normalizeBookingData(ex.input.extractedData)]
               ELSE ex.input,
           !.pc = "chatHandler"]
    /\ UNCHANGED <<attemptVars, av, fb, loop>>

\* processMessage when the call of the model failed: fallbackProcessMessage
ExFallbackPath ==
    /\ ex.pc = "processMessage"
    /\ ex.path = "fallback"
    /\ ex' = [ex EXCEPT
           !.aiResponse =
               IF ex.input.bookingIntent /\ extractAppointmentData(ex.input) # Null
               THEN [intent |-> "book_appointment",
                     extractedData |-> extractAppointmentData(ex.input)]
               ELSE GeneralConversation,
           !.pc = "chatHandler"]
    /\ UNCHANGED <<attemptVars, av, fb, loop>>

\* chatHandler from the answer of processMessage to the call of
\* findBestTimeSlot; timePreferences[0].date of an empty list throws and the
\* catch block answers 500
ExChatHandler ==
    /\ ex.pc = "chatHandler"
    /\ IF ex.aiResponse.intent = "book_appointment" /\ ex.aiResponse.extractedData # Null
       THEN IF Len(ex.aiResponse.extractedData.timePreferences) = 0
            THEN ex' = [ex EXCEPT !.status = 500, !.pc = "done"]
            ELSE ex' = [ex EXCEPT
                     !.timePreferences = ex.aiResponse.extractedData.timePreferences,
                     !.pc = "findBestTimeSlot"]
       ELSE ex' = [ex EXCEPT !.status = 200, !.pc = "done"]
    /\ UNCHANGED <<attemptVars, av, fb, loop>>

\* elements of the timePreferences a model may answer: well-formed, with a
\* date or a time that does not parse, and null
RawPreferences ==
    { [date |-> Today + 1, time |-> 10 * MinutesPerHour],
      [date |-> Invalid, time |-> 14 * MinutesPerHour],
      [date |-> Today + 2, time |-> Invalid],
      Null }

\* answers of the model: a booking intent with extracted data (service given
\* or not, timePreferences an array or not), a booking intent without data,
\* and a general answer
ModelAnswers ==
    [intent : {"book_appointment"},
     extractedData : [hasService : BOOLEAN,
                      service : {"cleaning", "PLUMBING", "roofing"},
                      isArray : BOOLEAN,
                      timePreferences : SeqsUpTo(RawPreferences, MaxPrefs)]]
        \cup { [intent |-> "book_appointment", extractedData |-> Null],
               GeneralConversation }

\* what the rules of the fallback find in a message
FallbackMessages ==
    [bookingIntent : BOOLEAN, hasService : BOOLEAN, service : {"repair"},
     date : {NotFound, Today, Today + 1},
     time : {NotFound, 9 * MinutesPerHour, 15 * MinutesPerHour}]

LoopIdle == [date |-> Tomorrow, existingAppointments |-> <<>>,
             availableSlots |-> <<>>, k |-> 1, i |-> 1, pc |-> "idle"]

\* the index that forgets the i-- after the splice
IndexAfterSpliceSkipping(i) == i + 1

\* i-- after the splice, then the i++ of the for statement: the slot that
\* moved into position i is examined next
IndexAfterSplice(i) == i

\* for (const appointment of existingAppointments): the next appointment, and
\* let i = 0 of the inner for
LoopNextAppointment ==
    /\ loop.pc = "for-of"
    /\ loop.k <= Len(loop.existingAppointments)
    /\ loop' = [loop EXCEPT !.i = 1, !.pc = "for"]
    /\ UNCHANGED <<attemptVars, av, fb, ex>>

\* one iteration of for (let i = 0; i < availableSlots.length; i++)
LoopSlot ==
    /\ loop.pc = "for"
    /\ loop.i <= Len(loop.availableSlots)
    /\ LET appointment == loop.existingAppointments[loop.k]
           slot == loop.availableSlots[loop.i]
       IN  IF Overlaps(appointment, slot)
           THEN loop' = [loop EXCEPT
                    !.availableSlots =
                        Splice(loop.availableSlots, loop.i)
                            \o BeforePiece(appointment, slot)
                            \o AfterPiece(appointment, slot),
                    !.i = IndexAfterSplice(loop.i)]
           ELSE loop' = [loop EXCEPT !.i = loop.i + 1]
    /\ UNCHANGED <<attemptVars, av, fb, ex>>

\* i < availableSlots.length is false: the inner for ends and the for-of
\* goes on
LoopEndOfSlots ==
    /\ loop.pc = "for"
    /\ loop.i > Len(loop.availableSlots)
    /\ loop' = [loop EXCEPT !.k = loop.k + 1, !.pc = "for-of"]
    /\ UNCHANGED <<attemptVars, av, fb, ex>>

\* return availableSlots
LoopReturn ==
    /\ loop.pc = "for-of"
    /\ loop.k > Len(loop.existingAppointments)
    /\ loop' = [loop EXCEPT !.pc = "done"]
    /\ UNCHANGED <<attemptVars, av, fb, ex>>

-----------------------------------------------------------------------------
(* Specifications *)

InitAttempts ==
    /\ pc = [a \in Attempts |-> "idle"]
    /\ req = [a \in Attempts |-> Null]
    /\ existing = [a \in Attempts |-> <<>>]
    /\ routeAnalysis = [a \in Attempts |-> NoRoute]
    /\ bestTimeSlot = [a \in Attempts |-> Null]
    /\ response = [a \in Attempts |-> NoResponse]
    /\ failed = [a \in Attempts |-> {}]
    /\ calls = [a \in Attempts |-> <<>>]
    /\ created = <<>>

\* two concurrent booking attempts against one calendar
Init ==
    /\ calendar \in Calendars
    /\ InitAttempts
    /\ av = AvIdle
    /\ fb = FbIdle
    /\ loop = LoopIdle
    /\ ex = ExIdle

Next ==
    \E a \in Attempts :
        \/ Receive(a)
        \/ GetAppointmentsForDay(a)
        \/ AnalyzeRoute(a)
        \/ FindBestTimeSlot(a)
        \/ CreateAppointment(a)

Spec == Init /\ [][Next]_vars

\* the two handlers against any route collaborator: analyzeRoute may resolve
\* to every result of RouteResults, an empty slot list included
NextHandler ==
    \E a \in Attempts :
        \/ Receive(a)
        \/ GetAppointmentsForDay(a)
        \/ AnalyzeRouteAny(a)
        \/ FindBestTimeSlot(a)
        \/ CreateAppointment(a)

SpecHandler == Init /\ [][NextHandler]_vars

\* getAvailableTimeSlots on every list of at most MaxBooked booked intervals
InitAvail ==
    /\ calendar = <<>>
    /\ InitAttempts
    /\ av \in [date : {Tomorrow},
               existingAppointments : SeqsUpTo(BookedIntervals, MaxBooked),
               result : {<<>>}, pc : {"call"}]
    /\ fb = FbIdle
    /\ loop = LoopIdle
    /\ ex = ExIdle

NextAvail == AvCall

SpecAvail == InitAvail /\ [][NextAvail]_vars

\* findBestTimeSlot on every list of at most MaxPrefs preferences and every
\* list of at most MaxSlots route windows
InitResolve ==
    /\ calendar = <<>>
    /\ InitAttempts
    /\ av = AvIdle
    /\ fb \in [timePreferences : SeqsUpTo(PrefChoices, MaxPrefs),
               availableTimeSlots : SeqsUpTo(SlotChoices, MaxSlots),
               service : ServiceChoices, result : {Null}, pc : {"call"}]
    /\ loop = LoopIdle
    /\ ex = ExIdle

NextResolve == FbCall

SpecResolve == InitResolve /\ [][NextResolve]_vars

\* getAvailableTimeSlots step by step on every list of at most MaxBooked
\* booked intervals, starting with the full day as available
InitLoop ==
    /\ calendar = <<>>
    /\ InitAttempts
    /\ av = AvIdle
    /\ fb = FbIdle
    /\ ex = ExIdle
    /\ loop \in [date : {Tomorrow},
                 existingAppointments : SeqsUpTo(BookedIntervals, MaxBooked),
                 availableSlots : { << [start |-> AtHour(Tomorrow, BUSINESS_HOURS.start),
                                        end |-> AtHour(Tomorrow, BUSINESS_HOURS.end)] >> },
                 k : {1}, i : {1}, pc : {"for-of"}]

NextLoop ==
    \/ LoopNextAppointment
    \/ LoopSlot
    \/ LoopEndOfSlots
    \/ LoopReturn

\* the function runs to completion once called: a step that can be taken is
\* taken
SpecLoop == InitLoop /\ [][NextLoop]_vars /\ WF_vars(NextLoop)

\* a chat message through processMessage and chatHandler, on every answer
\* of the model and every message of the fallback
InitExtract ==
    /\ calendar = <<>>
    /\ InitAttempts
    /\ av = AvIdle
    /\ fb = FbIdle
    /\ loop = LoopIdle
    /\ \E path \in {"model", "fallback"} :
       \E input \in (IF path = "model" THEN ModelAnswers ELSE FallbackMessages) :
           ex = [path |-> path, input |-> input, aiResponse |-> Null,
                 timePreferences |-> Null, status |-> 0, pc |-> "processMessage"]

NextExtract ==
    \/ ExModelPath
    \/ ExFallbackPath
    \/ ExChatHandler

SpecExtract == InitExtract /\ [][NextExtract]_vars

-----------------------------------------------------------------------------
(* Outcomes of a booking attempt *)

Done(a) == pc[a] = "done"

Booked(a) == Done(a) /\ response[a].appointmentBooked

Rejected(a) == Done(a) /\ response[a].status \in {400, 500}

NoSlotAvailable(a) == Done(a) /\ ~Booked(a) /\ ~Rejected(a)

\* the day whose appointments the attempt reads
AttemptDay(a) == req[a].timePreferences[1].date

\* interval inner lies inside interval outer
Inside(inner, outer) == outer.start <= inner.start /\ inner.end <= outer.end

\* two half-open intervals share an instant
Intersect(x, y) == x.start < y.end /\ y.start < x.end

Range(f) == { f[i] : i \in DOMAIN f }

-----------------------------------------------------------------------------
(* Properties of getAvailableTimeSlots, under SpecAvail *)

\* C1: the list returned by getAvailableTimeSlots holds no interval with
\* start >= end and no two intervals that overlap.
C1_NonOverlap ==
    av.pc = "done" =>
        /\ \A i \in DOMAIN av.result : av.result[i].start < av.result[i].end
        /\ \A i, j \in DOMAIN av.result :
               i < j => ~Intersect(av.result[i], av.result[j])

\* a call with two booked intervals inside one another's free remainder: the
\* day is split three ways
C1_Witness ==
    /\ av.pc = "done"
    /\ Len(av.existingAppointments) = 2
    /\ Len(av.result) = 3

BusinessInstants(date) ==
    AtHour(date, BUSINESS_HOURS.start) .. (AtHour(date, BUSINESS_HOURS.end) - 1)

InFree(t) == \E i \in DOMAIN av.result : IsBetween(t, av.result[i].start, av.result[i].end)

InBooked(t) ==
    \E k \in DOMAIN av.existingAppointments :
        IsBetween(t, av.existingAppointments[k].start, av.existingAppointments[k].end)

\* C2: the free intervals lie inside business hours, every instant of business
\* hours is in a free interval or in a booked interval and never in both; one
\* booking 10:00-11:00 gives exactly [09:00-10:00, 11:00-17:00].
C2_Closure ==
    av.pc = "done" =>
        /\ \A i \in DOMAIN av.result :
               Inside(av.result[i], Event(av.date, BUSINESS_HOURS.start, BUSINESS_HOURS.end))
        /\ \A t \in BusinessInstants(av.date) : InFree(t) # InBooked(t)
        /\ av.existingAppointments = << Event(av.date, 10, 11) >>
               => av.result = << Event(av.date, 9, 10), Event(av.date, 11, 17) >>

\* a call with a booked interval strictly inside business hours and another
\* one reaching outside them
C2_Witness ==
    /\ av.pc = "done"
    /\ \E k \in DOMAIN av.existingAppointments :
           av.existingAppointments[k] = Event(av.date, 10, 11)
    /\ \E k \in DOMAIN av.existingAppointments :
           av.existingAppointments[k].start < AtHour(av.date, BUSINESS_HOURS.start)
    /\ Len(av.result) = 2

-----------------------------------------------------------------------------
(* Properties of findBestTimeSlot, under SpecResolve *)

FbSlot == [start |-> PrefInstant(fb.result),
           end |-> AddMinutes(PrefInstant(fb.result), DurationMinutes(fb.service))]

\* C4: whenever findBestTimeSlot returns a slot, [slot start, slot start +
\* duration) lies inside a single interval of the constrained set.
C4_DurationContained ==
    (fb.pc = "done" /\ fb.result # Null) =>
        \E j \in DOMAIN fb.availableTimeSlots : Inside(FbSlot, fb.availableTimeSlots[j])

Matches(i) ==
    \E j \in DOMAIN fb.availableTimeSlots :
        /\ fb.availableTimeSlots[j].start <= PrefInstant(fb.timePreferences[i])
        /\ PrefInstant(fb.timePreferences[i]) < fb.availableTimeSlots[j].end

\* C5: when some preference passes the resolver's check, the one returned is
\* the passing preference of lowest index.
C5_FirstMatchWins ==
    fb.pc = "done" =>
        \A i \in DOMAIN fb.timePreferences :
            (Matches(i) /\ \A h \in 1..(i - 1) : ~Matches(h))
                => fb.result = fb.timePreferences[i]

\* two different preferences both pass and the first one is returned
C5_Witness ==
    /\ fb.pc = "done"
    /\ Len(fb.timePreferences) = 2
    /\ Matches(1) /\ Matches(2)
    /\ fb.timePreferences[1] # fb.timePreferences[2]
    /\ fb.result = fb.timePreferences[1]

NoneMatches == \A i \in DOMAIN fb.timePreferences : ~Matches(i)

EarliestStart ==
    CHOOSE x \in { w.start : w \in Range(fb.availableTimeSlots) } :
        \A w \in Range(fb.availableTimeSlots) : x <= w.start

SortedByStart ==
    \A i, j \in DOMAIN fb.availableTimeSlots :
        i < j => fb.availableTimeSlots[i].start <= fb.availableTimeSlots[j].start

\* the {date, time} slot that names instant x, to the minute
SlotOf(x) == [date |-> x \div (TicksPerMinute * MinutesPerDay),
              time |-> (x \div TicksPerMinute) % MinutesPerDay]

\* C6 as claimed: when no preference matches and the set is not empty, the
\* slot returned is the start of the interval with the earliest start, in
\* whatever order the intervals are supplied.
C6_EarliestStart ==
    (fb.pc = "done" /\ NoneMatches /\ fb.availableTimeSlots # <<>>) =>
        fb.result = SlotOf(EarliestStart)

\* C6 as amended: the slot returned is the start (day and minute) of the
\* first interval of the list as supplied, which is the earliest start when
\* the list is ordered by start.
C6_FirstSupplied ==
    (fb.pc = "done" /\ NoneMatches /\ fb.availableTimeSlots # <<>>) =>
        /\ fb.result = SlotOf(fb.availableTimeSlots[1].start)
        /\ SortedByStart => fb.result = SlotOf(EarliestStart)

\* no preference matches, two windows are supplied latest first, and the
\* start of the first one is returned
C6_Witness ==
    /\ fb.pc = "done"
    /\ fb.timePreferences # <<>>
    /\ NoneMatches
    /\ Len(fb.availableTimeSlots) = 2
    /\ fb.availableTimeSlots[1].start > fb.availableTimeSlots[2].start
    /\ fb.result = SlotOf(fb.availableTimeSlots[1].start)

-----------------------------------------------------------------------------
(* Properties of the booking attempts, under Spec *)

BookedSlot(a) == [start |-> response[a].appointment.start,
                  end |-> response[a].appointment.end]

FreeIntervals(a) == getAvailableTimeSlots(AttemptDay(a), existing[a])

\* C3: the slot of an attempt that ends Booked lies inside a free interval of
\* the day and inside a window of the route result, and overlaps no
\* appointment of the calendar read of that attempt.
C3_BookedSlotFreeAndFeasible ==
    \A a \in Attempts :
        Booked(a) =>
            /\ \E f \in Range(FreeIntervals(a)) : Inside(BookedSlot(a), f)
            /\ \E w \in Range(routeAnalysis[a].availableTimeSlots) :
                   Inside(BookedSlot(a), w)
            /\ \A e \in Range(existing[a]) : ~Intersect(BookedSlot(a), e)

\* C7: an attempt whose calendar read failed never reaches the persist step
\* and ends Rejected.
C7_LookupFailureRejects ==
    \A a \in Attempts :
        "getAppointmentsForDay" \in failed[a] =>
            /\ pc[a] # "createAppointment"
            /\ Done(a) => Rejected(a)

\* C8: when analyzeRoute failed, the attempt is not rejected for it and the
\* intervals findBestTimeSlot chooses from are the free intervals of the day.
C8_RouteFailureFailsOpen ==
    \A a \in Attempts :
        ("analyzeRoute" \in failed[a] /\ "createAppointment" \notin failed[a]) =>
            /\ ~Rejected(a)
            /\ Range(routeAnalysis[a].availableTimeSlots) = Range(FreeIntervals(a))

\* C9: an attempt whose createAppointment call failed is Rejected, is not
\* Booked and reports no appointment.
C9_PersistFailureRejects ==
    \A a \in Attempts :
        "createAppointment" \in failed[a] =>
            /\ Rejected(a)
            /\ ~Booked(a)
            /\ response[a].appointment = Null

\* createAppointment failed for an attempt that had resolved a slot, and the
\* caller got the 500 response
C9_Witness ==
    \E a \in Attempts :
        /\ "createAppointment" \in failed[a]
        /\ bestTimeSlot[a] # Null
        /\ response[a].status = 500

\* C10: of two attempts for the same day that resolved the same slot, at most
\* one ends Booked, and then the other one ends Rejected.
C10_AtMostOnePerSlot ==
    \A a, b \in Attempts :
        (/\ a # b
         /\ Done(a) /\ Done(b)
         /\ bestTimeSlot[a] # Null
         /\ bestTimeSlot[a] = bestTimeSlot[b]
         /\ AttemptDay(a) = AttemptDay(b)
         /\ Booked(a))
            => Rejected(b)

-----------------------------------------------------------------------------
(* Order of the stages of an attempt, under SpecHandler *)

\* the stages in the order of the state machine: calendar read, route
\* feasibility, slot resolution, persist
StageOrder == << "getAppointmentsForDay", "analyzeRoute", "findBestTimeSlot",
                 "createAppointment" >>

IsPrefix(p, q) == Len(p) <= Len(q) /\ \A i \in DOMAIN p : p[i] = q[i]

Count(q, x) == Cardinality({ i \in DOMAIN q : q[i] = x })

\* the response of an attempt is one of the terminal answers of the handlers
Terminal(a) ==
    \/ /\ response[a].status \in {200, 201}
       /\ response[a].appointmentBooked
       /\ response[a].appointment # Null
    \/ /\ response[a].status \in {200, 409}
       /\ ~response[a].appointmentBooked
       /\ response[a].appointment = Null
    \/ /\ response[a].status \in {400, 500}
       /\ ~response[a].appointmentBooked
       /\ response[a].appointment = Null

\* C11: the calls an attempt has made are always an initial part of the
\* order calendar read, route feasibility, slot resolution, persist (so no
\* stage is entered twice or re-entered), the attempt waits at the stage that
\* follows its last call, and it has an answer exactly when it is done: one
\* answer, Booked, NoSlotAvailable or Rejected.
C11_StagesInOrder ==
    \A a \in Attempts :
        /\ IsPrefix(calls[a], StageOrder)
        /\ ~Done(a) =>
               /\ pc[a] = IF req[a] = Null THEN "idle"
                          ELSE StageOrder[Len(calls[a]) + 1]
               /\ response[a] = NoResponse
        /\ Done(a) =>
               /\ Terminal(a)
               /\ Cardinality({ o \in {"Booked", "NoSlotAvailable", "Rejected"} :
                      \/ o = "Booked" /\ Booked(a)
                      \/ o = "NoSlotAvailable" /\ NoSlotAvailable(a)
                      \/ o = "Rejected" /\ Rejected(a) }) = 1
               /\ Booked(a) => calls[a] = StageOrder
               /\ NoSlotAvailable(a) => calls[a] = SubSeq(StageOrder, 1, 3)

\* an attempt went through the four stages and ended Booked while the other
\* one ended without a slot after three
C11_Witness ==
    \E a, b \in Attempts :
        /\ Booked(a) /\ calls[a] = StageOrder
        /\ NoSlotAvailable(b) /\ Len(calls[b]) = 3

\* C12: createAppointment is called at most once in an attempt, only after
\* findBestTimeSlot returned a slot, never in an attempt that ends
\* NoSlotAvailable or that is rejected before the persist step; no more
\* appointments are created than attempts called it.
C12_PersistAtMostOnce ==
    /\ \A a \in Attempts :
        /\ Count(calls[a], "createAppointment") <= 1
        /\ (pc[a] = "createAppointment" \/ Count(calls[a], "createAppointment") = 1) =>
               /\ bestTimeSlot[a] # Null
               /\ \E i \in DOMAIN calls[a] :
                      /\ calls[a][i] = "findBestTimeSlot"
                      /\ \A j \in DOMAIN calls[a] :
                             calls[a][j] = "createAppointment" => i < j
        /\ NoSlotAvailable(a) => Count(calls[a], "createAppointment") = 0
        /\ (Rejected(a) /\ "createAppointment" \notin failed[a]) =>
               Count(calls[a], "createAppointment") = 0
    /\ Len(created) <=
           Cardinality({ a \in Attempts : Count(calls[a], "createAppointment") = 1 })

\* one attempt ended NoSlotAvailable and one was rejected with missing
\* fields, neither having called createAppointment, or one called it once
C12_Witness ==
    \E a, b \in Attempts :
        /\ NoSlotAvailable(a) /\ bestTimeSlot[a] = Null
        /\ Booked(b) /\ Count(calls[b], "createAppointment") = 1

-----------------------------------------------------------------------------
(* The interval of the appointment of a Booked attempt *)

\* the duration table as the specification states it
StatedMinutes(service) ==
    CASE service = "cleaning" -> 120
      [] service = "repair" -> 90
      [] service = "plumbing" -> 60
      [] service = "electrical" -> 60
      [] service = "landscaping" -> 180
      [] OTHER -> 60

\* C13: the appointment of an attempt that ends Booked starts at the resolved
\* slot and ends the stated duration later: 120/90/60/60/180 minutes for
\* cleaning/repair/plumbing/electrical/landscaping, 60 minutes for any other
\* service kind.
C13_IntervalFromDuration ==
    \A a \in Attempts :
        Booked(a) =>
            /\ response[a].appointment.start = PrefInstant(bestTimeSlot[a])
            /\ response[a].appointment.end =
                   PrefInstant(bestTimeSlot[a])
                       + StatedMinutes(req[a].service) * TicksPerMinute

-----------------------------------------------------------------------------
(* Order of the booked intervals and order of the free intervals *)

Permuted(q, f) == [i \in 1..Len(q) |-> q[f[i]]]

\* C14: for every list of booked intervals and every permutation of it,
\* getAvailableTimeSlots returns the same set of free intervals.
C14_OrderIndependent ==
    av.pc = "done" =>
        \A f \in Permutations(1..Len(av.existingAppointments)) :
            Range(getAvailableTimeSlots(
                      av.date, Permuted(av.existingAppointments, f)))
                = Range(av.result)

\* two overlapping booked intervals whose two orders return different lists
\* of the same free intervals
C14_Witness ==
    /\ av.pc = "done"
    /\ Len(av.existingAppointments) = 2
    /\ Intersect(av.existingAppointments[1], av.existingAppointments[2])
    /\ Len(av.result) = 2
    /\ \E f \in Permutations(1..2) :
           getAvailableTimeSlots(av.date, Permuted(av.existingAppointments, f))
               # av.result

\* C15: for every list of booked intervals, the list getAvailableTimeSlots
\* returns is ordered by start time ascending and holds no zero-length
\* interval.
C15_SortedNoEmpty ==
    av.pc = "done" =>
        /\ \A i, j \in DOMAIN av.result :
               i < j => av.result[i].start <= av.result[j].start
        /\ \A i \in DOMAIN av.result : av.result[i].start # av.result[i].end

-----------------------------------------------------------------------------
(* Attempts that find no slot, under SpecHandler *)

Resolved(a) == "findBestTimeSlot" \in Range(calls[a])

\* C16: when the route result of an attempt holds no available time slot,
\* findBestTimeSlot returns no slot whatever the preferences, and the attempt
\* ends NoSlotAvailable: answered 409 (200 in the chat), not booked, not an
\* error, nothing created.
C16_EmptySetNoSlot ==
    \A a \in Attempts :
        (Resolved(a) /\ routeAnalysis[a].availableTimeSlots = <<>>) =>
            /\ \A prefs \in SeqsUpTo(PrefChoices, MaxPrefs) :
                   findBestTimeSlot(prefs, routeAnalysis[a]) = Null
            /\ bestTimeSlot[a] = Null
            /\ NoSlotAvailable(a)
            /\ response[a].status =
                   IF req[a].handler = "bookAppointment" THEN 409 ELSE 200
            /\ response[a].appointment = Null
            /\ "createAppointment" \notin Range(calls[a])

\* both handlers ended an attempt without a slot on an empty route result,
\* one of them with two preferences
C16_Witness ==
    \E a, b \in Attempts :
        /\ NoSlotAvailable(a) /\ routeAnalysis[a].availableTimeSlots = <<>>
        /\ req[a].handler = "bookAppointment"
        /\ Len(req[a].timePreferences) = 2
        /\ NoSlotAvailable(b) /\ routeAnalysis[b].availableTimeSlots = <<>>
        /\ req[b].handler = "chatHandler"

\* C17: the alternatives in the answer of an attempt that ends
\* NoSlotAvailable are the suggestedAlternatives of its route result: the
\* same elements in the same order.
C17_AlternativesAsIs ==
    \A a \in Attempts :
        (Resolved(a) /\ NoSlotAvailable(a)) =>
            response[a].suggestedAlternatives
                = routeAnalysis[a].suggestedAlternatives

\* an attempt ended NoSlotAvailable with the two alternatives of its route
\* result
C17_Witness ==
    \E a \in Attempts :
        /\ NoSlotAvailable(a)
        /\ Len(routeAnalysis[a].suggestedAlternatives) = 2
        /\ Len(response[a].suggestedAlternatives) = 2

-----------------------------------------------------------------------------
(* Attempts with the same inputs *)

SameInputs(a, b) ==
    /\ req[a].service = req[b].service
    /\ req[a].timePreferences = req[b].timePreferences
    /\ existing[a] = existing[b]
    /\ routeAnalysis[a] = routeAnalysis[b]

-----------------------------------------------------------------------------
(* The bounds of a route window, under SpecResolve *)

\* preference i lies at the end of a window and every window that reaches it
\* ends there
AtEndOnly(i) ==
    LET x == PrefInstant(fb.timePreferences[i])
    IN  /\ \E j \in DOMAIN fb.availableTimeSlots :
               x = fb.availableTimeSlots[j].end
        /\ \A j \in DOMAIN fb.availableTimeSlots :
               (fb.availableTimeSlots[j].start <= x
                    /\ x <= fb.availableTimeSlots[j].end)
                   => x = fb.availableTimeSlots[j].end

\* preference i lies at the start of a window
AtStart(i) ==
    \E j \in DOMAIN fb.availableTimeSlots :
        PrefInstant(fb.timePreferences[i]) = fb.availableTimeSlots[j].start

\* C19: containment is half-open.  A preference that lies at the end of a
\* window, and in no other window, is not matched: when no other preference
\* matches, the slot returned is the fallback, the start of the first window.
\* A preference that lies at the start of a window is eligible: it is
\* returned when no preference before it matches.
C19_HalfOpenBounds ==
    fb.pc = "done" =>
        \A i \in DOMAIN fb.timePreferences :
            /\ (AtEndOnly(i)
                    /\ \A h \in DOMAIN fb.timePreferences : h # i => ~Matches(h))
                   => fb.result = SlotOf(fb.availableTimeSlots[1].start)
            /\ (AtStart(i) /\ \A h \in 1..(i - 1) : ~Matches(h))
                   => fb.result = fb.timePreferences[i]

\* the first preference lies at the end of the only window and the second at
\* its start: the second is returned
C19_Witness ==
    /\ fb.pc = "done"
    /\ Len(fb.timePreferences) = 2
    /\ Len(fb.availableTimeSlots) = 1
    /\ AtEndOnly(1)
    /\ AtStart(2)
    /\ fb.result = fb.timePreferences[2]
    /\ fb.result # fb.timePreferences[1]

-----------------------------------------------------------------------------
(* One booked interval removed from one free interval, under SpecAvail *)

\* what removing cut from base leaves, as stated: nothing when cut covers
\* base, base when they do not overlap, otherwise the part of base before cut
\* and the part after it, each when not empty
ExpectedPieces(base, cut) ==
    IF cut.start <= base.start /\ base.end <= cut.end THEN {}
    ELSE IF cut.end <= base.start \/ base.end <= cut.start THEN {base}
    ELSE { piece \in { [start |-> base.start, end |-> cut.start],
                       [start |-> cut.end, end |-> base.end] } :
               piece.start < piece.end }

\* the slots after the first k appointments of the call
SlotsAfter(k) ==
    IF k = Len(av.existingAppointments) THEN av.result
    ELSE getAvailableTimeSlots(av.date, SubSeq(av.existingAppointments, 1, k))

\* C20: each appointment of the call replaces every slot by what removing it
\* from that slot leaves: nothing when it covers the slot, the slot itself
\* when they do not overlap or only touch, otherwise the before-piece, the
\* after-piece or both; every piece is non-empty and does not overlap the
\* appointment.
C20_SubtractOne ==
    av.pc = "done" =>
        \A k \in DOMAIN av.existingAppointments :
            LET cut == av.existingAppointments[k]
            IN  /\ Range(SlotsAfter(k)) =
                       UNION { ExpectedPieces(base, cut) :
                                   base \in Range(SlotsAfter(k - 1)) }
                /\ \A piece \in Range(SlotsAfter(k)) :
                       /\ piece.start < piece.end
                       /\ ~Intersect(piece, cut)

\* one appointment strictly inside business hours left the before-piece and
\* the after-piece
C20_Witness ==
    /\ av.pc = "done"
    /\ Len(av.existingAppointments) = 1
    /\ Len(av.result) = 2
    /\ av.result[1].end = av.existingAppointments[1].start
    /\ av.result[2].start = av.existingAppointments[1].end

-----------------------------------------------------------------------------
(* The start of the slot findBestTimeSlot returns, under SpecResolve *)

\* C24: whenever findBestTimeSlot returns a slot, the instant the slot names
\* lies inside [start, end) of some window of availableTimeSlots: it is a
\* preference whose instant is inside a window, or the start of the first
\* window of the list.
C24_StartInsideWindow ==
    (fb.pc = "done" /\ fb.result # Null) =>
        /\ \E j \in DOMAIN fb.availableTimeSlots :
               /\ fb.availableTimeSlots[j].start <= PrefInstant(fb.result)
               /\ PrefInstant(fb.result) < fb.availableTimeSlots[j].end
        /\ \/ \E i \in DOMAIN fb.timePreferences :
                  Matches(i) /\ fb.result = fb.timePreferences[i]
           \/ PrefInstant(fb.result) = fb.availableTimeSlots[1].start

-----------------------------------------------------------------------------
(* The splitting loop of getAvailableTimeSlots, under SpecLoop *)

\* no slot examined so far overlaps the appointment being processed, and no
\* slot of the list overlaps an appointment already processed
NoOverlapLeft ==
    /\ loop.pc = "for" =>
           \A j \in 1..(loop.i - 1) :
               j \in DOMAIN loop.availableSlots =>
                   ~Overlaps(loop.existingAppointments[loop.k],
                             loop.availableSlots[j])
    /\ loop.pc \in {"for-of", "for", "done"} =>
           \A h \in 1..(loop.k - 1) : \A j \in DOMAIN loop.availableSlots :
               ~Overlaps(loop.existingAppointments[h], loop.availableSlots[j])

\* C23: the loop that removes an overlapping slot, appends its pieces and
\* holds the index returns for every list of booked intervals, and once it
\* has finished with a booked interval no slot left in the list overlaps
\* that interval: the slot that moves into the place of a removed one is not
\* skipped.
C23_LoopTerminatesNoSkip ==
    /\ <>(loop.pc = "done")
    /\ []NoOverlapLeft

\* the second appointment removed the first slot without leaving a piece,
\* and the slot that moved into its place, which it overlaps too, is the one
\* examined next
C23_Witness ==
    /\ loop.pc = "for"
    /\ loop.k = 2
    /\ loop.i = 1
    /\ Len(loop.availableSlots) = 1
    /\ Overlaps(loop.existingAppointments[2], loop.availableSlots[1])
    /\ loop.existingAppointments[1].start > AtHour(Tomorrow, BUSINESS_HOURS.start)
    /\ loop.existingAppointments[1].end < AtHour(Tomorrow, BUSINESS_HOURS.end)

-----------------------------------------------------------------------------
(* The preference list of a chat booking, under SpecExtract *)

\* processMessage answered with a booking request
BookingRequested ==
    /\ ex.pc \in {"chatHandler", "findBestTimeSlot", "done"}
    /\ ex.aiResponse.intent = "book_appointment"
    /\ ex.aiResponse.extractedData # Null

\* the model gave no list of preferences, or an empty one
NoPreferenceGiven ==
    /\ ex.path = "model"
    /\ ~ex.input.extractedData.isArray \/ ex.input.extractedData.timePreferences = <<>>

\* C21: a booking request produced by processMessage, through
\* normalizeBookingData or through extractAppointmentData, carries a list of at
\* least one preference, and that list is the one handed to findBestTimeSlot;
\* where the model gave no list or an empty one, the list is the single
\* default preference, tomorrow at 09:00.
C21_PreferencesNonEmpty ==
    /\ BookingRequested =>
           /\ Len(ex.aiResponse.extractedData.timePreferences) >= 1
           /\ NoPreferenceGiven =>
                  ex.aiResponse.extractedData.timePreferences
                      = << [date |-> Tomorrow, time |-> 9 * MinutesPerHour] >>
           /\ ex.pc # "chatHandler" =>
                  /\ ex.pc = "findBestTimeSlot"
                  /\ ex.timePreferences = ex.aiResponse.extractedData.timePreferences
    /\ ex.pc = "findBestTimeSlot" => BookingRequested

\* the model answered a booking with no list of preferences and the chat
\* handler reached findBestTimeSlot with the default preference
C21_Witness ==
    /\ ex.pc = "findBestTimeSlot"
    /\ ex.path = "model"
    /\ ~ex.input.extractedData.isArray
    /\ ex.timePreferences = << DefaultPreference >>

-----------------------------------------------------------------------------
(* The inputs of an attempt, under SpecHandler *)

\* a step leaves the appointments an attempt has read and the route result
\* it has obtained as they are
InputsKept ==
    \A a \in Attempts :
        /\ "getAppointmentsForDay" \in Range(calls[a]) =>
               existing'[a] = existing[a]
        /\ "analyzeRoute" \in Range(calls[a]) =>
               routeAnalysis'[a] = routeAnalysis[a]

\* C22: once an attempt has read the appointments of the day and obtained
\* the route result, no later step of any attempt changes either of them
\* (windows and alternatives included), and analyzeRoute is called once per
\* attempt: never twice, and once in every attempt that reaches slot
\* resolution.
C22_InputsReadOnly ==
    /\ [](\A a \in Attempts :
              /\ Count(calls[a], "analyzeRoute") <= 1
              /\ Resolved(a) => Count(calls[a], "analyzeRoute") = 1)
    /\ [][InputsKept]_vars

\* an attempt finished after slot resolution with a non-empty list of
\* appointments and a non-empty list of windows
C22_Witness ==
    \E a \in Attempts :
        /\ Booked(a)
        /\ existing[a] # <<>>
        /\ Len(routeAnalysis[a].availableTimeSlots) >= 2

=============================================================================
